---- MODULE Spec2Model ----
(***************************************************************************)
(* Model of snafu/registry.py (the two registering metaclasses and the     *)
(* module-level dictionaries TOOLS and COLLECTORS) and of Uperf.run in     *)
(* snafu/benchmarks/uperf.py.                                              *)
(*                                                                         *)
(* A class statement "class C(Base, metaclass=M): body" is one step: the   *)
(* metaclass's __new__ chain runs to completion or raises.  A metaclass    *)
(* is represented by the registrars on its method resolution order, so    *)
(* that the cooperative super().__new__ call of each registrar is the     *)
(* call of the next registrar on the chain (ABCMeta, which creates the     *)
(* class object, ends every chain).                                        *)
(***************************************************************************)
EXTENDS Integers, Sequences, FiniteSets, TLC

VARIABLES TOOLS, COLLECTORS, classes,
          run_pc, sample, sample_num, results, ret, log, samples

vars == <<TOOLS, COLLECTORS, classes,
          run_pc, sample, sample_num, results, ret, log, samples>>
regVars == <<TOOLS, COLLECTORS, classes>>
runVars == <<run_pc, sample, sample_num, results, ret, log, samples>>

----------------------------------------------------------------------------
(* Bounds *)

\* number of class statements executed in one behaviour
MaxTypes == 2

\* largest configured sample count
MaxSample == 3

\* number of class statements other threads execute while run is waiting
MaxDuringRun == 1

----------------------------------------------------------------------------
(* Python values that a class body can bind to a name attribute *)

None == [type |-> "NoneType", val |-> ""]

Str(s) == [type |-> "str", val |-> s]

StrValues == {Str(""), Str("alpha")}

Values == StrValues \cup {None}

AttrNames == {"tool_name", "collector_name"}

\* the class bodies: every binding of a subset of the two name attributes
AttributeDicts == UNION {[D -> Values] : D \in SUBSET AttrNames}

\* dict.get(key, None)
Get(d, key) == IF key \in DOMAIN d THEN d[key] ELSE None

\* d[key] = value
SetItem(d, key, value) ==
    [k \in (DOMAIN d) \cup {key} |-> IF k = key THEN value ELSE d[k]]

\* the empty dict
EmptyDict == [k \in {} |-> 0]

----------------------------------------------------------------------------
(* Metaclasses, as the registrars on their method resolution order *)

Metaclasses == {"ToolRegistryMeta", "CollectorRegistryMeta",
                "ToolCollectorMeta", "CollectorToolMeta"}

\* the registrars of a metaclass, outermost __new__ first
Mro(meta) ==
    CASE meta = "ToolRegistryMeta"      -> <<"ToolRegistryMeta">>
      [] meta = "CollectorRegistryMeta" -> <<"CollectorRegistryMeta">>
      [] meta = "ToolCollectorMeta"     -> <<"ToolRegistryMeta", "CollectorRegistryMeta">>
      [] meta = "CollectorToolMeta"     -> <<"CollectorRegistryMeta", "ToolRegistryMeta">>

Registrars(meta) == {Mro(meta)[i] : i \in 1..Len(Mro(meta))}

\* the name attribute a registrar reads
NameAttr(registrar) ==
    IF registrar = "ToolRegistryMeta" THEN "tool_name" ELSE "collector_name"

----------------------------------------------------------------------------
(* The __new__ methods.  sup is the outcome of super().__new__: whether it *)
(* raised, and the two dictionaries as it left them.                        *)

\* mutant: registers nothing
ToolNew_NoInsert(new_class, superclasses, attributedict, sup) ==
    IF sup.raised THEN sup
    ELSE IF Get(attributedict, "tool_name") = None
         THEN [sup EXCEPT !.raised = TRUE]
         ELSE sup

\* mutant: inserts before the check, under dict.get's value
ToolNew_InsertFirst(new_class, superclasses, attributedict, sup) ==
    IF sup.raised THEN sup
    ELSE [raised |-> Get(attributedict, "tool_name") = None,
          TOOLS |-> SetItem(sup.TOOLS, Get(attributedict, "tool_name"), new_class),
          COLLECTORS |-> sup.COLLECTORS]

\* mutant: rebinds the dictionary to a fresh one holding only the new entry
ToolNew_Rebind(new_class, superclasses, attributedict, sup) ==
    IF sup.raised THEN sup
    ELSE IF Get(attributedict, "tool_name") = None
         THEN [sup EXCEPT !.raised = TRUE]
         ELSE [sup EXCEPT !.TOOLS =
                  SetItem(EmptyDict, attributedict["tool_name"], new_class)]

\* mutant: setdefault, the first registration wins
ToolNew_SetDefault(new_class, superclasses, attributedict, sup) ==
    IF sup.raised THEN sup
    ELSE IF Get(attributedict, "tool_name") = None
         THEN [sup EXCEPT !.raised = TRUE]
         ELSE IF attributedict["tool_name"] \in DOMAIN sup.TOOLS
              THEN sup
              ELSE [sup EXCEPT !.TOOLS =
                       SetItem(sup.TOOLS, attributedict["tool_name"], new_class)]

\* mutant: writes the entry into both dictionaries
ToolNew_BothDicts(new_class, superclasses, attributedict, sup) ==
    IF sup.raised THEN sup
    ELSE IF Get(attributedict, "tool_name") = None
         THEN [sup EXCEPT !.raised = TRUE]
         ELSE [sup EXCEPT
                 !.TOOLS = SetItem(sup.TOOLS, attributedict["tool_name"], new_class),
                 !.COLLECTORS =
                     SetItem(sup.COLLECTORS, attributedict["tool_name"], new_class)]

\* mutant: no presence check, the key is whatever dict.get returns
ToolNew_NoCheck(new_class, superclasses, attributedict, sup) ==
    IF sup.raised THEN sup
    ELSE [sup EXCEPT !.TOOLS =
             SetItem(sup.TOOLS, Get(attributedict, "tool_name"), new_class)]

\* the name as getattr(new_class, attr, None) resolves it: own body first,
\* then the superclass chain
RECURSIVE GetAttr(_, _, _)
GetAttr(superclasses, attributedict, attr) ==
    IF attr \in DOMAIN attributedict THEN attributedict[attr]
    ELSE IF superclasses = 0 THEN None
    ELSE GetAttr(classes[superclasses].base, classes[superclasses].attrs, attr)

\* mutant: checks and reads the name on the new class, inheritance included
ToolNew_Inherited(new_class, superclasses, attributedict, sup) ==
    IF sup.raised THEN sup
    ELSE IF GetAttr(superclasses, attributedict, "tool_name") = None
         THEN [sup EXCEPT !.raised = TRUE]
         ELSE [sup EXCEPT !.TOOLS =
                  SetItem(sup.TOOLS,
                          GetAttr(superclasses, attributedict, "tool_name"), new_class)]

\* ToolRegistryMeta.__new__
ToolRegistryMeta_new(new_class, superclasses, attributedict, sup) ==
    IF sup.raised THEN sup
    ELSE IF Get(attributedict, "tool_name") = None
         THEN [sup EXCEPT !.raised = TRUE]
         ELSE [sup EXCEPT !.TOOLS =
                  SetItem(sup.TOOLS, attributedict["tool_name"], new_class)]

\* CollectorRegistryMeta.__new__
CollectorRegistryMeta_new(new_class, superclasses, attributedict, sup) ==
    IF sup.raised THEN sup
    ELSE IF Get(attributedict, "collector_name") = None
         THEN [sup EXCEPT !.raised = TRUE]
         ELSE [sup EXCEPT !.COLLECTORS =
                  SetItem(sup.COLLECTORS, attributedict["collector_name"], new_class)]

\* the chain of __new__ calls from position i of the resolution order on;
\* past its end ABCMeta.__new__ creates the class and touches no dictionary
RECURSIVE MetaNew(_, _, _, _, _)
MetaNew(mro, i, new_class, superclasses, attributedict) ==
    IF i > Len(mro)
    THEN [raised |-> FALSE, TOOLS |-> TOOLS, COLLECTORS |-> COLLECTORS]
    ELSE LET sup == MetaNew(mro, i + 1, new_class, superclasses, attributedict)
         IN  IF mro[i] = "ToolRegistryMeta"
             THEN ToolRegistryMeta_new(new_class, superclasses, attributedict, sup)
             ELSE CollectorRegistryMeta_new(new_class, superclasses, attributedict, sup)

----------------------------------------------------------------------------
(* Class statements *)

\* the class statement with metaclass meta, superclass base (0: none) and
\* body attributedict; the new class object is identified by its ordinal
Declare(meta, base, attributedict) ==
    /\ Len(classes) < MaxTypes
    /\ LET new_class == Len(classes) + 1
           r == MetaNew(Mro(meta), 1, new_class, base, attributedict)
       IN  /\ TOOLS' = r.TOOLS
           /\ COLLECTORS' = r.COLLECTORS
           /\ classes' = Append(classes,
                  [meta |-> meta, base |-> base,
                   attrs |-> attributedict, raised |-> r.raised])
    /\ UNCHANGED runVars

\* class C(metaclass=meta): body
DeclareClass(meta, attributedict) == Declare(meta, 0, attributedict)

\* class C(Base): body, the metaclass being that of Base.  Base is any class
\* object ABCMeta.__new__ has created, also one whose class statement raised:
\* such an object stays reachable (the traceback's frame, __subclasses__())
DeclareSubclass(base, attributedict) ==
    /\ base \in 1..Len(classes)
    /\ Declare(classes[base].meta, base, attributedict)

----------------------------------------------------------------------------
(* Uperf.run *)

Stdouts == {"out1", "out2", "out3"}

NoReturn == [returned |-> FALSE, ok |-> FALSE, results |-> <<>>]

\* run() is entered: cmd is built and results is the empty list; the loop
\* variable sample_num is not yet assigned (0 stands for that)
RunCall(n) ==
    /\ run_pc \in {"idle", "returned", "raised"}
    /\ run_pc' = "loop"
    /\ sample' = n
    /\ sample_num' = 0
    /\ results' = <<>>
    /\ ret' = NoReturn
    /\ log' = <<>>
    /\ samples' = <<>>
    /\ UNCHANGED regVars

\* the for statement yields the next element of range(1, sample + 1), the
\* logger records "Starting Uperf sample number k" and run_process is
\* called: run waits for the external process
RunStartSample ==
    /\ run_pc = "loop"
    /\ sample_num + 1 <= sample
    /\ sample_num' = sample_num + 1
    /\ log' = Append(log, sample_num + 1)
    /\ run_pc' = "run_process"
    /\ UNCHANGED <<sample, results, ret, samples>>
    /\ UNCHANGED regVars

\* mutant: a failed sample is skipped and the loop goes on
RunSample_Continue(success, stdout) ==
    /\ run_pc = "run_process"
    /\ samples' = Append(samples, [success |-> success, stdout |-> stdout])
    /\ results' = IF success THEN Append(results, stdout) ELSE results
    /\ run_pc' = "loop"
    /\ UNCHANGED <<sample, sample_num, ret, log>>
    /\ UNCHANGED regVars

\* run_process returns the sample (its success flag and stdout): a failed
\* sample makes run return False, results; a successful one is appended
RunSample(success, stdout) ==
    /\ run_pc = "run_process"
    /\ samples' = Append(samples, [success |-> success, stdout |-> stdout])
    /\ IF ~success
       THEN /\ ret' = [returned |-> TRUE, ok |-> FALSE, results |-> results]
            /\ run_pc' = "returned"
            /\ UNCHANGED results
       ELSE /\ results' = Append(results, stdout)
            /\ run_pc' = "loop"
            /\ UNCHANGED ret
    /\ UNCHANGED <<sample, sample_num, log>>
    /\ UNCHANGED regVars

\* an exception raised inside run_process is not caught by run: it
\* propagates to the caller and run produces no return value
RunProcessRaises ==
    /\ run_pc = "run_process"
    /\ run_pc' = "raised"
    /\ UNCHANGED <<sample, sample_num, results, ret, log, samples>>
    /\ UNCHANGED regVars

\* the range is exhausted: return True, results
RunFinish ==
    /\ run_pc = "loop"
    /\ sample_num + 1 > sample
    /\ ret' = [returned |-> TRUE, ok |-> TRUE, results |-> results]
    /\ run_pc' = "returned"
    /\ UNCHANGED <<sample, sample_num, results, log, samples>>
    /\ UNCHANGED regVars

\* a class statement executed by another thread while run waits in
\* run_process
ClassStatementDuringRun(meta, attributedict) ==
    /\ run_pc = "run_process"
    /\ Len(classes) < MaxDuringRun
    /\ DeclareClass(meta, attributedict)

----------------------------------------------------------------------------
(* Specifications *)

Init ==
    /\ TOOLS = EmptyDict
    /\ COLLECTORS = EmptyDict
    /\ classes = <<>>
    /\ run_pc = "idle"
    /\ sample = 0
    /\ sample_num = 0
    /\ results = <<>>
    /\ ret = NoReturn
    /\ log = <<>>
    /\ samples = <<>>

Next ==
    \/ \E meta \in Metaclasses, attributedict \in AttributeDicts :
          DeclareClass(meta, attributedict)
    \/ \E base \in 1..MaxTypes, attributedict \in AttributeDicts :
          DeclareSubclass(base, attributedict)

Spec == Init /\ [][Next]_vars

NextRun ==
    \/ \E n \in 0..MaxSample : RunCall(n)
    \/ RunStartSample
    \/ \E success \in BOOLEAN, stdout \in Stdouts : RunSample(success, stdout)
    \/ RunProcessRaises
    \/ RunFinish
    \/ \E meta \in Metaclasses, attributedict \in AttributeDicts :
          ClassStatementDuringRun(meta, attributedict)

SpecRun == Init /\ [][NextRun]_vars

----------------------------------------------------------------------------
(* Reading the registries *)

AllRegistrars == {"ToolRegistryMeta", "CollectorRegistryMeta"}

\* the dictionary a registrar writes
Registry(registrar) ==
    IF registrar = "ToolRegistryMeta" THEN TOOLS ELSE COLLECTORS

\* the same dictionary after the step
RegistryNext(registrar) ==
    IF registrar = "ToolRegistryMeta" THEN TOOLS' ELSE COLLECTORS'

Found(t) == [found |-> TRUE, type |-> t]

NotFound == [found |-> FALSE, type |-> 0]

\* lookup by name: the mapping itself, absence reported as not-found
Lookup(registry, name) ==
    IF name \in DOMAIN registry THEN Found(registry[name]) ELSE NotFound

\* the names a dispatcher may ask for, one of them never declared
LookupNames == Values \cup {Str("beta")}

IsNonEmptyStr(v) == v.type = "str" /\ v.val # ""

\* the step executes a class statement
Declared == Len(classes') = Len(classes) + 1

\* every registrar of the class finds its name in the class body
Valid(c) ==
    \A R \in Registrars(c.meta) : Get(c.attrs, NameAttr(R)) # None

\* the classes whose class statement completed through registrar R
Completed(R) ==
    {t \in 1..Len(classes) : ~classes[t].raised /\ R \in Registrars(classes[t].meta)}

----------------------------------------------------------------------------
(* Claims about the registries, under Spec *)

\* C1: a class statement that supplies, for each registrar of its metaclass,
\* a non-empty name not yet in that registrar's dictionary completes, and
\* right after it a lookup of that name in that dictionary returns exactly
\* the new class.
C1_DeclaredNameLooksUpType ==
    [][Declared =>
         LET t == Len(classes')
             c == classes'[t]
         IN  (\A R \in Registrars(c.meta) :
                 /\ IsNonEmptyStr(Get(c.attrs, NameAttr(R)))
                 /\ Get(c.attrs, NameAttr(R)) \notin DOMAIN Registry(R))
             => /\ ~c.raised
                /\ \A R \in Registrars(c.meta) :
                      Lookup(RegistryNext(R), c.attrs[NameAttr(R)]) = Found(t)]_vars

C1_Witness ==
    /\ \E t \in 1..Len(classes) :
          /\ classes[t].meta = "ToolRegistryMeta"
          /\ Lookup(TOOLS, Str("alpha")) = Found(t)
    /\ \E t \in 1..Len(classes) :
          /\ classes[t].meta = "CollectorRegistryMeta"
          /\ Lookup(COLLECTORS, Str("alpha")) = Found(t)

\* C2: a class whose body omits the name attribute of one of its registrars
\* failed at its class statement, and in every state from then on no lookup
\* of any name in that registrar's dictionary returns it.
C2_OmittedNameFailsAndStaysAbsent ==
    \A t \in 1..Len(classes) :
        \A R \in Registrars(classes[t].meta) :
            NameAttr(R) \notin DOMAIN classes[t].attrs
            => /\ classes[t].raised
               /\ \A n \in LookupNames : Lookup(Registry(R), n) # Found(t)

C2_Witness ==
    /\ Len(classes) = 2
    /\ classes[1].meta = "ToolRegistryMeta"
    /\ "tool_name" \notin DOMAIN classes[1].attrs
    /\ classes[1].raised
    /\ ~classes[2].raised
    /\ TOOLS # EmptyDict

\* C3 as claimed: once a name maps to a class in a dictionary it maps to the
\* same class after every step.
C3_RegisteredIsTerminal ==
    [][\A R \in AllRegistrars :
          \A n \in DOMAIN Registry(R) :
              /\ n \in DOMAIN RegistryNext(R)
              /\ RegistryNext(R)[n] = Registry(R)[n]]_vars

\* C3 amended: a registered name is never removed, and the class it maps to
\* changes only in a class statement whose body supplies that same name to
\* that registrar, the name then mapping to the newly declared class.
C3_NeverRemovedOnlyRedeclared ==
    [][\A R \in AllRegistrars :
          \A n \in DOMAIN Registry(R) :
              /\ n \in DOMAIN RegistryNext(R)
              /\ RegistryNext(R)[n] # Registry(R)[n]
                 => /\ Declared
                    /\ R \in Registrars(classes'[Len(classes')].meta)
                    /\ Get(classes'[Len(classes')].attrs, NameAttr(R)) = n
                    /\ RegistryNext(R)[n] = Len(classes')]_vars

C3_Witness ==
    /\ Len(classes) = 2
    /\ ~classes[1].raised
    /\ "ToolRegistryMeta" \in Registrars(classes[1].meta)
    /\ Get(classes[1].attrs, "tool_name") = Str("alpha")
    /\ Lookup(TOOLS, Str("alpha")) = Found(2)
    /\ Lookup(TOOLS, Str("")) = NotFound

\* C4: a class statement whose body supplies every name its registrars read,
\* one of them already registered to another class, completes without error,
\* and afterwards that name maps to the new class and no longer to the other.
C4_DuplicateNameOverwrites ==
    [][Declared =>
         LET t == Len(classes')
             c == classes'[t]
         IN  \A R \in Registrars(c.meta) :
                (Valid(c) /\ Get(c.attrs, NameAttr(R)) \in DOMAIN Registry(R))
                => /\ ~c.raised
                   /\ Lookup(RegistryNext(R), c.attrs[NameAttr(R)]) = Found(t)
                   /\ RegistryNext(R)[c.attrs[NameAttr(R)]]
                         # Registry(R)[c.attrs[NameAttr(R)]]]_vars

C4_Witness ==
    /\ Len(classes) = 2
    /\ classes[1].meta = "CollectorRegistryMeta"
    /\ classes[2].meta = "CollectorRegistryMeta"
    /\ classes[2].base = 0
    /\ ~classes[1].raised
    /\ ~classes[2].raised
    /\ Get(classes[1].attrs, "collector_name") = Str("alpha")
    /\ Get(classes[2].attrs, "collector_name") = Str("alpha")
    /\ COLLECTORS[Str("alpha")] = 2

\* C5: a class statement whose metaclass has no collector registrar leaves
\* COLLECTORS unchanged, and one whose metaclass has no tool registrar leaves
\* TOOLS unchanged.
C5_RegistriesIndependent ==
    [][Declared =>
         LET c == classes'[Len(classes')]
         IN  /\ "CollectorRegistryMeta" \notin Registrars(c.meta)
                => COLLECTORS' = COLLECTORS
             /\ "ToolRegistryMeta" \notin Registrars(c.meta)
                => TOOLS' = TOOLS]_vars

C5_Witness ==
    /\ Len(classes) = 2
    /\ classes[1].meta = "ToolRegistryMeta"
    /\ classes[2].meta = "CollectorRegistryMeta"
    /\ classes[1].attrs = [a \in AttrNames |-> Str("alpha")]
    /\ classes[2].attrs = [a \in AttrNames |-> Str("")]
    /\ DOMAIN TOOLS = {Str("alpha")}
    /\ DOMAIN COLLECTORS = {Str("")}

\* C6 as claimed: every key of either dictionary is a non-empty string.
C6_KeysNonEmptyStrings ==
    \A R \in AllRegistrars :
        \A n \in DOMAIN Registry(R) : IsNonEmptyStr(n)

\* C6 amended: every key of either dictionary is a value other than None,
\* the one the class it maps to binds to the registrar's name attribute in
\* its own body; the empty string is such a value.
C6_KeysAreSuppliedNonNoneNames ==
    \A R \in AllRegistrars :
        \A n \in DOMAIN Registry(R) :
            /\ n # None
            /\ NameAttr(R) \in DOMAIN classes[Registry(R)[n]].attrs
            /\ classes[Registry(R)[n]].attrs[NameAttr(R)] = n

C6_Witness ==
    /\ Str("") \in DOMAIN TOOLS
    /\ Str("") \in DOMAIN COLLECTORS

\* C7: the key set of each dictionary is exactly the set of names of the
\* class statements that completed through its registrar, so a lookup of
\* any other name reports not-found.
C7_KeysAreNamesOfCompletedDeclarations ==
    \A R \in AllRegistrars :
        /\ DOMAIN Registry(R) =
              {Get(classes[t].attrs, NameAttr(R)) : t \in Completed(R)}
        /\ \A n \in LookupNames :
              n \notin {Get(classes[t].attrs, NameAttr(R)) : t \in Completed(R)}
              => Lookup(Registry(R), n) = NotFound

\* C9: a class statement naming a superclass whose body does not bind the
\* name attribute of one of its registrars fails and leaves that registrar's
\* dictionary as it was, whatever the superclass chain binds.
C9_InheritedNameDoesNotCount ==
    [][Declared =>
         LET c == classes'[Len(classes')]
         IN  \A R \in Registrars(c.meta) :
                (c.base # 0 /\ NameAttr(R) \notin DOMAIN c.attrs)
                => /\ c.raised
                   /\ RegistryNext(R) = Registry(R)]_vars

C9_Witness ==
    /\ Len(classes) = 2
    /\ classes[2].base = 1
    /\ classes[2].meta = "ToolRegistryMeta"
    /\ Lookup(TOOLS, Str("alpha")) = Found(1)
    /\ "tool_name" \notin DOMAIN classes[2].attrs
    /\ GetAttr(classes[2].base, classes[2].attrs, "tool_name") = Str("alpha")
    /\ classes[2].raised

\* C10: a class statement that fails leaves both dictionaries exactly as
\* they were before it.
C10_FailedDeclarationChangesNothing ==
    [][(Declared /\ classes'[Len(classes')].raised)
         => (TOOLS' = TOOLS /\ COLLECTORS' = COLLECTORS)]_vars

----------------------------------------------------------------------------
(* Claim about Uperf.run, under SpecRun *)

\* C8: the samples started are 1, 2, ... in order, at most the configured
\* count, and none is started after a sample failed; when run returns, it
\* returns True exactly when every sample succeeded, and then all of them
\* were run and results holds their stdouts in order; otherwise the failing
\* sample is the last one started and results holds the stdouts of the
\* samples before it, in order.
C8_RunStopsAtFirstFailure ==
    LET k == Len(log)
    IN  /\ k <= sample
        /\ \A i \in 1..k : log[i] = i
        /\ \A i \in 1..Len(samples) : ~samples[i].success => i = k
        /\ run_pc = "returned" =>
              /\ ret.returned
              /\ Len(samples) = k
              /\ ret.ok <=> (\A i \in 1..k : samples[i].success)
              /\ ret.ok => /\ k = sample
                           /\ ret.results = [i \in 1..sample |-> samples[i].stdout]
              /\ ~ret.ok => /\ ~samples[k].success
                            /\ \A i \in 1..(k - 1) : samples[i].success
                            /\ ret.results = [i \in 1..(k - 1) |-> samples[i].stdout]

C8_Witness ==
    /\ run_pc = "returned"
    /\ ~ret.ok
    /\ sample = 3
    /\ log = <<1, 2>>
    /\ ret.results = <<"out2">>
    /\ classes # <<>>

====
